---------------------------- MODULE Spec2Model ----------------------------
(***************************************************************************)
(* Model of cpdetect/cp_detector.py: the Detector class (Bayes-factor      *)
(* scorer, recursive segmenter, log-gamma table, step-function             *)
(* reconstruction) and the two distribution models Normal and LogNormal.   *)
(*                                                                         *)
(* Floating-point numbers are modelled as fixed-point integers with        *)
(* FScale units per 1.0, together with the three IEEE special values       *)
(* +inf, -inf and NaN, which propagate through the arithmetic the way      *)
(* they do in numpy.  np.log and scipy.special.gammaln are computed by a   *)
(* piecewise-linear approximation on that grid.                            *)
(***************************************************************************)
EXTENDS Integers, Sequences, FiniteSets, TLC

(***************************************************************************)
(* Bounds of the model.                                                    *)
(***************************************************************************)
MaxLen == 9
MaxRuns == 2

(***************************************************************************)
(* Floating point.                                                         *)
(***************************************************************************)
FScale == 4096
PInf == 1000000000
NInf == -1000000000
NaN == 2000000000

IsNaN(x) == x = NaN
IsFinite(x) == x > NInf /\ x < PInf

\* overflow of a finite result saturates to an infinity, as in IEEE 754
Sat(x) == IF x >= PInf THEN PInf ELSE IF x <= NInf THEN NInf ELSE x

FNeg(x) == IF IsNaN(x) THEN NaN ELSE 0 - x

FAdd(x, y) ==
    IF IsNaN(x) \/ IsNaN(y) THEN NaN
    ELSE IF x = PInf THEN (IF y = NInf THEN NaN ELSE PInf)
    ELSE IF x = NInf THEN (IF y = PInf THEN NaN ELSE NInf)
    ELSE IF y = PInf \/ y = NInf THEN y
    ELSE Sat(x + y)

FSub(x, y) == FAdd(x, FNeg(y))

Sign(x) == IF x > 0 THEN 1 ELSE IF x < 0 THEN -1 ELSE 0

\* integer division truncating toward zero
TDiv(a, b) == IF a >= 0 THEN a \div b ELSE 0 - ((0 - a) \div b)

FMul(x, y) ==
    IF IsNaN(x) \/ IsNaN(y) THEN NaN
    ELSE IF ~IsFinite(x) \/ ~IsFinite(y)
         THEN (IF x = 0 \/ y = 0 THEN NaN
               ELSE IF Sign(x) * Sign(y) > 0 THEN PInf ELSE NInf)
    ELSE Sat(TDiv(x * y, FScale))

\* division of a float by a positive integer count (sum()/n, mean())
FDivN(x, n) == IF IsFinite(x) THEN TDiv(x, n) ELSE x

FAbs(x) == IF IsNaN(x) THEN NaN ELSE IF x < 0 THEN 0 - x ELSE x

\* the float of an integer
FInt(n) == n * FScale

RECURSIVE Pow2Floor(_)
\* largest power of two that is <= x, for x >= 1
Pow2Floor(x) == IF x < 2 THEN 1 ELSE 2 * Pow2Floor(x \div 2)

RECURSIVE Log2Floor(_)
Log2Floor(x) == IF x < 2 THEN 0 ELSE 1 + Log2Floor(x \div 2)

\* pi as a float
FPi == 12868

\* ln(2) in units of 1/1024
Ln2Num == 710

\* np.log: NaN below zero, -inf at zero, +inf at +inf
FLog(x) ==
    IF IsNaN(x) THEN NaN
    ELSE IF x = PInf THEN PInf
    ELSE IF x < 0 THEN NaN
    ELSE IF x = 0 THEN NInf
    ELSE LET p == Pow2Floor(x)
             l2 == (Log2Floor(x) - Log2Floor(FScale)) * FScale
                   + ((x - p) * FScale) \div p
         IN  TDiv(l2 * Ln2Num, 1024)


(***************************************************************************)
(* Sequences helpers.                                                      *)
(***************************************************************************)
RECURSIVE FSum(_)
\* ndarray.sum() over a sequence of floats
FSum(s) == IF s = <<>> THEN 0 ELSE FAdd(Head(s), FSum(Tail(s)))

\* obs[a:b] for 0 <= a, a Python slice with 0-based half-open bounds
Slice(s, a, b) == SubSeq(s, a + 1, IF b > Len(s) THEN Len(s) ELSE b)

(***************************************************************************)
(* Distribution models (class Normal, class LogNormal).                    *)
(***************************************************************************)
\* mean and variance of a sequence of floats: data.mean(), data.var()
MeanVarOf(xs) ==
    LET n == Len(xs)
        m == IF n = 0 THEN NaN ELSE FDivN(FSum(xs), n)
        dev == [j \in 1..n |-> FMul(FSub(xs[j], m), FSub(xs[j], m))]
        v == IF n = 0 THEN NaN ELSE FDivN(FSum(dev), n)
    IN  <<m, v>>

NormalMeanVar(data) == MeanVarOf([j \in 1..Len(data) |-> FInt(data[j])])

LogNormalMeanVar(data) ==
    MeanVarOf([j \in 1..Len(data) |-> FLog(FInt(data[j]))])

mean_var(dist, data) ==
    IF dist = "log_normal" THEN LogNormalMeanVar(data) ELSE NormalMeanVar(data)

(***************************************************************************)
(* Log-gamma table.                                                        *)
(***************************************************************************)
RECURSIVE gammaln_half(_)
\* gammaln(0.5*i - 1) for i >= 3, by lgamma(z + 1) = lgamma(z) + ln(z)
\* from lgamma(0.5) = 0.5724 and lgamma(1) = 0
gammaln_half(i) ==
    IF i = 3 THEN 2345
    ELSE IF i = 4 THEN 0
    ELSE FAdd(gammaln_half(i - 2), FLog(((i - 4) * FScale) \div 2))

Max(S) == CHOOSE x \in S : \A y \in S : y <= x

\* range(3, max(self._Ts) + 1) appended to [-99, -99, -99]
GenLoggammaTop(Ts) == Max({Ts[k] : k \in DOMAIN Ts})

_generate_loggamma_table(Ts) ==
    [m \in 1..(IF GenLoggammaTop(Ts) < 3 THEN 3 ELSE GenLoggammaTop(Ts) + 1) |->
        IF m <= 3 THEN FInt(-99) ELSE gammaln_half(m - 1)]

\* self.loggamma[m]: Python index m is position m + 1; m >= 0 always here
InTable(tbl, m) == m >= 0 /\ m + 1 <= Len(tbl)

(***************************************************************************)
(* Bayes factor scorer (Detector._normal_lognormal_bf).                    *)
(***************************************************************************)
\* the shortest segment the scorer looks at
MinSegment == 6

\* the range started one too early
SplitCandidates_From2(n) == 2..(n - 3)

\* range(3, n-2): the candidate split offsets
SplitCandidates(n) == 3..(n - 3)

\* - n/2 + 0.5, -0.5*n + 0.5 and -0.5*n + 1 as floats
HalfCoef(n, twice) == (twice - n) * (FScale \div 2)

WNumF(tbl, n_p, var_p) ==
    FAdd(FAdd(FMul(HalfCoef(n_p, 1), FLog(FInt(n_p))),
              FMul(HalfCoef(n_p, 2), FLog(var_p))),
         tbl[n_p + 1])

\* one entry of the weights list, for the split obs[0:i] | obs[i:]
Weight(dist, tbl, obs, i) ==
    LET data_a == Slice(obs, 0, i)
        data_b == Slice(obs, i, Len(obs))
        mva == mean_var(dist, data_a)
        mvb == mean_var(dist, data_b)
        mean_a2 == FMul(mva[1], mva[1])
        mean_b2 == FMul(mvb[1], mvb[1])
        wnumf1 == WNumF(tbl, Len(data_a), mva[2])
        wnumf2 == WNumF(tbl, Len(data_b), mvb[2])
        wdenom == FAdd(FLog(FAdd(mva[2], mvb[2])), FLog(FMul(mean_a2, mean_b2)))
    IN  FSub(FAdd(wnumf1, wnumf2), wdenom)

\* the weights list before the mean is taken: zeros at the forbidden places
RawWeights(dist, tbl, obs) ==
    LET n == Len(obs)
    IN  [j \in 1..n |-> IF (j - 1) \in SplitCandidates(n)
                        THEN Weight(dist, tbl, obs, j - 1) ELSE 0]

\* the forcing left out
ForceNegInf_Forgotten(w) == w

\* weights[0] = weights[1] = weights[2] = weights[-1] = weights[-2] = -inf
ForceNegInf(w) ==
    LET n == Len(w)
    IN  [j \in 1..n |-> IF j \in {1, 2, 3, n, n - 1} THEN NInf ELSE w[j]]

\* ndarray.argmax(): the first NaN if there is one, else the first maximum;
\* the result is a 0-based index
ArgMax(w) ==
    LET nans == {j \in DOMAIN w : IsNaN(w[j])}
        tops == {j \in DOMAIN w : \A l \in DOMAIN w : w[l] <= w[j]}
        first(S) == CHOOSE j \in S : \A l \in S : j <= l
    IN  (IF nans # {} THEN first(nans) ELSE first(tops)) - 1

\* the indices of self.loggamma read while scoring a segment of length n
GammaReads(n) ==
    IF n < MinSegment THEN {}
    ELSE {n} \cup {i : i \in SplitCandidates(n)}
             \cup {n - i : i \in SplitCandidates(n)}

\* log_odds = num - denom, from the weights list w of the segment
LogOdds(dist, tbl, obs, w) ==
    LET n == Len(obs)
        mv == mean_var(dist, obs)
        denom == FAdd(FAdd(FMul(FInt(3) \div 2, FLog(FPi)),
                           FMul(HalfCoef(n, 1), FLog(FMul(FInt(n), mv[2])))),
                      tbl[n + 1])
        num == FAdd(FAdd(FMul(FInt(5) \div 2, FLog(FInt(2))), FLog(FAbs(mv[1]))),
                    FDivN(FSum(w), n))
    IN  FSub(num, denom)

\* the comparison made against the default 0 instead of self.threshold
BelowThreshold_Zero(log_odds, thr) == log_odds < 0

\* the test that rejects a segment: log_odds < self.threshold
BelowThreshold(log_odds, thr) == log_odds < thr

\* the test that raises: math.isnan(log_odds)
BadLogOdds(log_odds) == IsNaN(log_odds)

\* The result of a scorer call: kind is "none" (return None), "raise" (an
\* exception leaves the call) or "split" (return weights.argmax(), log_odds).
\* log_odds is the value the call computed and logged, whatever the kind.
Result(kind, ts, log_odds) == [kind |-> kind, ts |-> ts, log_odds |-> log_odds]

_normal_lognormal_bf(dist, tbl, thr, obs) ==
    LET n == Len(obs)
    IN  IF n < MinSegment THEN Result("none", 0, 0)
        ELSE IF \E m \in GammaReads(n) : ~InTable(tbl, m) THEN Result("raise", 0, 0)
        ELSE LET w == RawWeights(dist, tbl, obs)
                 log_odds == LogOdds(dist, tbl, obs, w)
             IN  IF BadLogOdds(log_odds) THEN Result("raise", 0, log_odds)
                 ELSE IF BelowThreshold(log_odds, thr) THEN Result("none", 0, log_odds)
                 ELSE Result("split", ArgMax(ForceNegInf(w)), log_odds)

(***************************************************************************)
(* Inputs of the constructor.                                              *)
(***************************************************************************)
Vals == {-1, 1}
\* log_odds_threshold: the default 0, and a value that the log_odds of some
\* segments equals, that of others exceeds and that of others stays below
Thresholds == {0, 17757}
Distributions == {"normal", "log_normal"}

\* trajectories from one sample short of what the scorer looks at, upwards
Trajectories == UNION {[1..n -> Vals] : n \in (MinSegment - 1)..MaxLen}
Companions == [1..1 -> Vals]

\* the lists of trajectories a Detector is constructed with: one trajectory,
\* or one and a single-sample companion before or after it, of at most
\* MaxLen samples in all
ObservationLists ==
    {<<t>> : t \in Trajectories}
    \cup {<<t, u>> : t \in {x \in Trajectories : Len(x) < MaxLen}, u \in Companions}
    \cup {<<u, t>> : t \in {x \in Trajectories : Len(x) < MaxLen}, u \in Companions}

(***************************************************************************)
(* State of a Detector and of a call of detect_cp.                         *)
(***************************************************************************)
VARIABLES
    observations,    \* self._observations, 1-based list of trajectories
    distribution,    \* self.distribution
    threshold,       \* self.threshold
    loggamma,        \* self.loggamma
    change_points,   \* self.change_points: trajectory -> list of records
    state_emission,  \* self.state_emission: trajectory -> list of records
    step_function,   \* self.step_function: trajectory -> list of values
    values_is_view,  \* whether Series.values aliases the frame's column
    pc,              \* where detect_cp is: idle, loop, split, error
    k,               \* loop variable of detect_cp (0-based)
    stack,           \* pending _split calls, innermost first: <<start, end>>
    runs,            \* completed calls of detect_cp
    scored,          \* what the last scorer call logged and returned
    first_run        \* self.change_points as the first detect_cp left it

vars == <<observations, distribution, threshold, loggamma, change_points,
          state_emission, step_function, values_is_view, pc, k, stack, runs,
          scored, first_run>>

_nobs == Len(observations)
_Ts == [j \in 1..Len(observations) |-> Len(observations[j])]
observation_lengths(j) == _Ts[j + 1]

NotScored == [n |-> 0, log_odds |-> 0, kind |-> "none", reads |-> {}]

\* Detector.__init__
Init ==
    /\ observations \in ObservationLists
    /\ distribution \in Distributions
    /\ threshold \in Thresholds
    /\ values_is_view \in BOOLEAN
    /\ loggamma = _generate_loggamma_table(_Ts)
    /\ change_points = <<>>
    /\ state_emission = <<>>
    /\ step_function = <<>>
    /\ pc = "idle"
    /\ k = 0
    /\ stack = <<>>
    /\ runs = 0
    /\ scored = NotScored
    /\ first_run = <<>>

\* d[key] = value on a dict modelled as a function
Put(d, key, value) == [j \in DOMAIN d \cup {key} |-> IF j = key THEN value ELSE d[j]]

\* the frame created only for a trajectory that has none yet
FreshFrame_KeepOld(cp, key) == IF key \in DOMAIN cp THEN cp ELSE Put(cp, key, <<>>)

\* self.change_points['traj_k'] = pd.DataFrame(columns=[...])
FreshFrame(cp, key) == Put(cp, key, <<>>)

\* detect_cp is called
DetectCp ==
    /\ pc = "idle"
    /\ runs < MaxRuns
    /\ pc' = "loop"
    /\ k' = 0
    /\ UNCHANGED <<observations, distribution, threshold, loggamma, change_points,
                   state_emission, step_function, values_is_view, stack, runs,
                   scored, first_run>>

\* for k in range(self._nobs): a fresh frame, then self._split(obs, 0, T, k)
DetectCpLoop ==
    /\ pc = "loop"
    /\ k < _nobs
    /\ change_points' = FreshFrame(change_points, k)
    /\ stack' = << <<0, observation_lengths(k)>> >>
    /\ pc' = "split"
    /\ UNCHANGED <<observations, distribution, threshold, loggamma,
                   state_emission, step_function, values_is_view, k, runs,
                   scored, first_run>>

\* the loop of detect_cp is over
DetectCpReturn ==
    /\ pc = "loop"
    /\ k = _nobs
    /\ pc' = "idle"
    /\ runs' = runs + 1
    /\ first_run' = IF runs = 0 THEN change_points ELSE first_run
    /\ UNCHANGED <<observations, distribution, threshold, loggamma, change_points,
                   state_emission, step_function, values_is_view, k, stack,
                   scored>>

(***************************************************************************)
(* Recursive segmenter (Detector._split), one call per step.               *)
(***************************************************************************)
\* the second call made on the whole window again
SplitChildren_Whole(start, ts, end) == << <<start, ts>>, <<start, end>> >>

\* the two recursive calls of _split on a window split at ts
SplitChildren(start, ts, end) == << <<start, ts>>, <<ts, end>> >>

\* one call _split(obs, start, end, k), the window on top of the stack:
\* result is None: return; the scorer raises: the exception leaves _split and
\* detect_cp; a result: append the record, then recurse left and right
Split ==
    /\ pc = "split"
    /\ stack # <<>>
    /\ \E result \in {_normal_lognormal_bf(distribution, loggamma, threshold,
                           Slice(observations[k + 1], Head(stack)[1], Head(stack)[2]))} :
       LET w == Head(stack)
           seg == Slice(observations[k + 1], w[1], w[2])
           ts == w[1] + result.ts
       IN  /\ scored' = [n |-> Len(seg), log_odds |-> result.log_odds,
                         kind |-> result.kind, reads |-> GammaReads(Len(seg))]
           /\ pc' = IF result.kind = "raise" THEN "error" ELSE pc
           /\ change_points' =
                 IF result.kind = "split"
                 THEN [change_points EXCEPT ![k] =
                         Append(@, [ts |-> ts, log_odds |-> result.log_odds,
                                    start_end |-> w])]
                 ELSE change_points
           /\ stack' = CASE result.kind = "none" -> Tail(stack)
                         [] result.kind = "raise" -> stack
                         [] OTHER -> SplitChildren(w[1], ts, w[2]) \o Tail(stack)
    /\ UNCHANGED <<observations, distribution, threshold, loggamma,
                   state_emission, step_function, values_is_view, k, runs,
                   first_run>>

(***************************************************************************)
(* Step-function reconstruction (Detector._generate_step_function).        *)
(***************************************************************************)
RECURSIVE Insert(_, _)
Insert(x, s) ==
    IF s = <<>> THEN <<x>>
    ELSE IF x <= Head(s) THEN <<x>> \o s
    ELSE <<Head(s)>> \o Insert(x, Tail(s))

RECURSIVE SortAsc(_)
\* ts.sort()
SortAsc(s) == IF s = <<>> THEN <<>> ELSE Insert(Head(s), SortAsc(Tail(s)))

\* a value of the step function: np.ones() fill, or exp() of a mean
FillOne == [fill |-> TRUE, exp_of |-> 0]
ExpOf(mu) == [fill |-> FALSE, exp_of |-> mu]

\* the last partition ended one sample early
LastPartitionEnd_Early(T) == T - 2

\* right end of the last partition: self.observation_lengths[itraj] - 1
LastPartitionEnd(T) == T - 1

\* partitions = [(0, ts[0])] + [(ts[i]+1, ts[i+1])] + [(ts[-1]+1, T-1)]
Partitions(ts, T) ==
    [i \in 1..(Len(ts) + 1) |->
        IF i = 1 THEN <<0, ts[1]>>
        ELSE IF i <= Len(ts) THEN <<ts[i - 1] + 1, ts[i]>>
        ELSE <<ts[Len(ts)] + 1, LastPartitionEnd(T)>>]

\* the slices of obs the statistics are taken over:
\* obs[0:ts[0]], obs[j+1:ts[i+1]], obs[ts[-1]+1:len(obs)-1]
StatSlices(ts, obs) ==
    [i \in 1..(Len(ts) + 1) |->
        IF i = 1 THEN <<0, ts[1]>>
        ELSE IF i <= Len(ts) THEN <<ts[i - 1] + 1, ts[i]>>
        ELSE <<ts[Len(ts)] + 1, Len(obs) - 1>>]

StateEmission(dist, ts, obs, T) ==
    [i \in 1..(Len(ts) + 1) |->
        LET sl == StatSlices(ts, obs)[i]
            mv == mean_var(dist, Slice(obs, sl[1], sl[2]))
        IN  [partition |-> Partitions(ts, T)[i],
             sample_mu |-> mv[1], sample_sigma |-> mv[2]]]

\* step[lo:hi] = v, with 0-based half-open bounds
AssignSlice(step, lo, hi, v) ==
    [j \in 1..Len(step) |-> IF lo <= j - 1 /\ j - 1 < hi THEN v ELSE step[j]]

\* the slice a State-Emission row writes: partition[0] : partition[1] + 1
RowSlice(row) == <<row.partition[1], row.partition[2] + 1>>

RECURSIVE WriteRows(_, _)
\* for index, row in state_emission.iterrows(): step[...] = np.exp(sample_mu)
WriteRows(step, rows) ==
    IF rows = <<>> THEN step
    ELSE WriteRows(AssignSlice(step, RowSlice(Head(rows))[1],
                               RowSlice(Head(rows))[2], ExpOf(Head(rows).sample_mu)),
                   Tail(rows))

\* the ts column of a frame
TsColumn(frame) == [i \in 1..Len(frame) |-> frame[i].ts]

\* len(ts) == 0: a constant step function, no State-Emission Record
StepFunctionEmpty ==
    /\ pc = "split"
    /\ stack = <<>>
    /\ change_points[k] = <<>>
    /\ LET obs == observations[k + 1]
           mv == mean_var(distribution, obs)
       IN  step_function' =
               Put(step_function, k,
                   [j \in 1..(observation_lengths(k) - 1) |-> ExpOf(mv[1])])
    /\ state_emission' = Put(state_emission, k, <<>>)
    /\ k' = k + 1
    /\ pc' = "loop"
    /\ UNCHANGED <<observations, distribution, threshold, loggamma, change_points,
                   values_is_view, stack, runs, scored, first_run>>

\* at least one change point: sort, partition, take the statistics, draw.
\* ts is the array behind the frame's ts column when Series.values is a view:
\* ts.sort() then reorders that column in place and leaves log_odds and
\* start_end where they were; when it is a copy the frame is untouched.
StepFunctionPartitions ==
    /\ pc = "split"
    /\ stack = <<>>
    /\ change_points[k] # <<>>
    /\ LET obs == observations[k + 1]
           T == observation_lengths(k)
           ts == SortAsc(TsColumn(change_points[k]))
           rows == StateEmission(distribution, ts, obs, T)
       IN  /\ state_emission' = Put(state_emission, k, rows)
           /\ step_function' =
                  Put(step_function, k, WriteRows([j \in 1..T |-> FillOne], rows))
           /\ change_points' =
                  IF values_is_view
                  THEN [change_points EXCEPT ![k] =
                           [i \in 1..Len(@) |-> [@[i] EXCEPT !.ts = ts[i]]]]
                  ELSE change_points
    /\ k' = k + 1
    /\ pc' = "loop"
    /\ UNCHANGED <<observations, distribution, threshold, loggamma,
                   values_is_view, stack, runs, scored, first_run>>

Next ==
    \/ DetectCp
    \/ DetectCpLoop
    \/ DetectCpReturn
    \/ Split
    \/ StepFunctionEmpty
    \/ StepFunctionPartitions

Spec == Init /\ [][Next]_vars

(***************************************************************************)
(* Properties.                                                             *)
(***************************************************************************)
Keys(d) == DOMAIN d
RangeOf(p) == p[1]..p[2]

\* C1: once _generate_step_function has run for a trajectory of length T, the
\* inclusive partitions stored in state_emission for it are pairwise disjoint
\* and their union is exactly 0..T-1, also when no split was found.
C1_PartitionsCover ==
    \A j \in Keys(state_emission) :
        LET rows == state_emission[j]
        IN  /\ \A a, b \in 1..Len(rows) :
                   a # b => RangeOf(rows[a].partition) \cap RangeOf(rows[b].partition) = {}
            /\ UNION {RangeOf(rows[a].partition) : a \in 1..Len(rows)}
                   = 0..(observation_lengths(j) - 1)

\* C2: while _split works on a trajectory (and when it was aborted), every
\* record it appended has 3 <= ts - start <= (end - start) - 3; and the ts
\* values recorded for one trajectory are always pairwise distinct.
C2_InteriorDistinct ==
    /\ pc \in {"split", "error"} =>
           \A i \in 1..Len(change_points[k]) :
               LET r == change_points[k][i]
               IN  /\ r.ts - r.start_end[1] >= 3
                   /\ r.ts - r.start_end[1] <= (r.start_end[2] - r.start_end[1]) - 3
    /\ \A j \in Keys(change_points) :
           \A a, b \in 1..Len(change_points[j]) :
               a # b => change_points[j][a].ts # change_points[j][b].ts

C2_Witness ==
    /\ pc = "split"
    /\ Len(change_points[k]) >= 2
    /\ change_points[k][2].start_end # <<0, observation_lengths(k)>>

\* C3: every record of every trajectory has a log_odds that is a number and is
\* >= threshold, and a scorer call whose log_odds was below the threshold
\* returned no result.
C3_AtLeastThreshold ==
    /\ \A j \in Keys(change_points) :
           \A i \in 1..Len(change_points[j]) :
               /\ ~IsNaN(change_points[j][i].log_odds)
               /\ change_points[j][i].log_odds >= threshold
    /\ (scored.n >= MinSegment /\ ~IsNaN(scored.log_odds) /\ scored.log_odds < threshold)
           => scored.kind = "none"

C3_Witness ==
    /\ threshold > 0
    /\ \E j \in Keys(change_points) : change_points[j] # <<>>
    /\ scored.n >= MinSegment /\ IsFinite(scored.log_odds)
    /\ scored.log_odds < threshold

\* C4: a scorer call on a segment of length >= 6 that computed a log_odds
\* which is NaN, +inf or -inf raised: it returned neither a split nor None.
C4_NonFiniteRaises ==
    (scored.n >= MinSegment /\ ~IsFinite(scored.log_odds)) => scored.kind = "raise"

RECURSIVE Variant(_)
\* twice the samples of the pending windows, less one per window
Variant(st) ==
    IF st = <<>> THEN 0
    ELSE 2 * (Head(st)[2] - Head(st)[1]) - 1 + Variant(Tail(st))

\* C5: a call of _split either returns, or is left by an exception, or makes
\* its two recursive calls on windows [start, ts) and [ts, end) that are both
\* strictly shorter than its own, which then has at least 6 samples; and
\* unless an exception ends the run, each call strictly decreases a quantity
\* of the pending calls that is never negative, so _split terminates.
C5_ShrinkStep ==
    LET w == Head(stack)
        n == w[2] - w[1]
    IN  \/ stack' = Tail(stack)
        \/ stack' = stack /\ pc' = "error"
        \/ /\ Len(stack') = Len(stack) + 1
           /\ n >= MinSegment
           /\ \E ts \in (w[1] + 1)..(w[2] - 1) :
                  stack' = << <<w[1], ts>>, <<ts, w[2]>> >> \o Tail(stack)

C5_SplitTerminates ==
    [][(pc = "split" /\ stack # <<>>) =>
           /\ C5_ShrinkStep
           /\ pc' = "error" \/ (0 <= Variant(stack') /\ Variant(stack') < Variant(stack))]_vars

C5_Witness ==
    /\ pc = "split"
    /\ Len(stack) >= 3

\* C6: when a second (or later) call of detect_cp has returned, every
\* trajectory has the same records as when the first call returned.
C6_SecondRunSame ==
    (pc = "idle" /\ runs >= 2) => change_points = first_run

C6_Witness ==
    /\ pc = "idle"
    /\ runs >= 2
    /\ \E j \in Keys(change_points) : Len(change_points[j]) >= 2

\* C7: every record has a log_odds strictly above the threshold: a window
\* whose log_odds equals the threshold is not split.
C7_StrictlyAbove ==
    \A j \in Keys(change_points) :
        \A i \in 1..Len(change_points[j]) :
            change_points[j][i].log_odds > threshold

\* C8: when State-Emission Records were made for a trajectory of length T,
\* its step function has length T and every index 0..T-1 lies in exactly one
\* partition and holds exp(sample_mu) of it, not the initial fill.
C8_StepFunctionFilled ==
    \A j \in Keys(step_function) :
        state_emission[j] # <<>> =>
            LET rows == state_emission[j]
                T == observation_lengths(j)
            IN  /\ Len(step_function[j]) = T
                /\ \A idx \in 0..(T - 1) :
                       /\ Cardinality({a \in 1..Len(rows) :
                                          idx \in RangeOf(rows[a].partition)}) = 1
                       /\ \A a \in 1..Len(rows) :
                              idx \in RangeOf(rows[a].partition) =>
                                  step_function[j][idx + 1] = ExpOf(rows[a].sample_mu)

C8_Witness ==
    \E j \in Keys(step_function) :
        /\ Len(state_emission[j]) >= 3
        /\ Len(step_function[j]) = observation_lengths(j)

\* C9: sample_mu and sample_sigma of every State-Emission Record are the
\* statistics of the samples lo..hi of the record's inclusive partition.
C9_StatsOverPartition ==
    \A j \in Keys(state_emission) :
        \A a \in 1..Len(state_emission[j]) :
            LET row == state_emission[j][a]
                mv == mean_var(distribution,
                               Slice(observations[j + 1], row.partition[1],
                                     row.partition[2] + 1))
            IN  row.sample_mu = mv[1] /\ row.sample_sigma = mv[2]

\* C10: every index of loggamma the scorer read is at least 3, at most the
\* longest trajectory's length and inside the table, and the table is the one
\* the constructor built.
C10_GammaReadsInRange ==
    /\ \A m \in scored.reads :
           /\ 3 <= m
           /\ m <= Max({_Ts[j] : j \in DOMAIN _Ts})
           /\ InTable(loggamma, m)
    /\ loggamma = _generate_loggamma_table(_Ts)

C10_Witness ==
    /\ _nobs = 2
    /\ scored.n = Max({_Ts[j] : j \in DOMAIN _Ts})
    /\ 3 \in scored.reads

=============================================================================
